---- MODULE Spec2Model ----
(***************************************************************************)
(* Model of nalipour/MLlab's synthetic data scripts:                       *)
(*   bin/create_data.py                 (generators + train/test driver)   *)
(*   src/test/resources/create_data.py  (regression branch)                *)
(*                                                                         *)
(* Numbers.  A Python float is modelled as an exact rational [num, den]    *)
(* with den > 1; a Python int as [num, 1].  random.random() returns        *)
(* u/Resolution for a raw value u in 0..Resolution-1, so that with         *)
(* Resolution a power of two 2*random.random()-1 and round(x, 2) are the   *)
(* exact IEEE results.  Signed zero (-0.0) is identified with 0.0.         *)
(*                                                                         *)
(* Random source.  The module-level generator of `random` is a record      *)
(* [tape, pos, next]: pos counts the calls answered so far, next is the    *)
(* raw value that answers the coming call and determines all later ones.   *)
(* random.seed(s) sets next from s alone and rewinds pos to 0.  One call   *)
(* of random.random(), random.randint() or random.gauss() consumes one raw *)
(* value.  tape is empty in the script; the generator harness uses it to   *)
(* force the first raw values.                                             *)
(***************************************************************************)
EXTENDS Integers, Sequences, FiniteSets, TLC

VARIABLES
    args,       \* [clf, reg]: the parsed command line (None when absent)
    pc,         \* position of the script
    command,    \* index into <<"train", "test">> of the running loop
    i,          \* loop variable of the write loop
    files,      \* file system below TARGET_DIR: name -> [exists, lines]
    stdout,     \* what the script printed to standard output
    rng,        \* the module-level random source [tape, pos, next]
    run,        \* 1 for the first invocation, 2 for the repeated one
    firstRun,   \* files left behind by the first invocation
    pulled,     \* history: samples pulled from the generators, in order
    strategy,   \* generator harness: [kind, name] under test
    gen,        \* generator harness: frame of the long-lived generator
    out,        \* generator harness: samples yielded by `gen`
    rngF,       \* generator harness: random source of the per-pull consumer
    outF        \* generator harness: samples of the per-pull consumer

vars == <<args, pc, command, i, files, stdout, rng, run, firstRun, pulled,
          strategy, gen, out, rngF, outF>>

driverVars == <<args, pc, command, i, files, stdout, run, firstRun, pulled>>
harnessVars == <<strategy, gen, out, rngF, outF>>

None == "None"

(***************************************************************************)
(* Bounds of the model.                                                    *)
(***************************************************************************)
\* random.random() is quantised to multiples of 1/Resolution
Resolution == 512
\* rows per file (1000 in the scripts), scaled down
nInstances == 3
\* pulls per consumer in the restart harness
MaxPulls == 3
\* the generator harness draws raw values on every RawStride-th grid point
\* (and its predecessor), plus the RawNear points next to the middle
RawStride == 16
RawNear == 3

(***************************************************************************)
(* Program constants.                                                      *)
(***************************************************************************)
SEED == 1337

ClfChoices == {"halfs", "quarters", "diagonal", "circle", "ellipse",
               "circles", "shifteddiagonal", "bernoulli"}
RegChoices == {"linear", "twodimlinear", "multidimlinear", "quadratic",
               "twodimquadratic", "cubic", "twodimcubic"}
\* an identifier that is in neither list
Unsupported == "spiral"

(***************************************************************************)
(* Arithmetic.                                                             *)
(***************************************************************************)
Q(n, d) == [num |-> n, den |-> d]

Abs(n) == IF n < 0 THEN -n ELSE n

Pow10(p) == IF p = 2 THEN 100 ELSE IF p = 3 THEN 1000 ELSE 1

\* decimal expansion of n/d to `places` digits: [q, r] with
\* n/d * 10^places = q + r/d and 0 <= r < d (floor division)
RECURSIVE Expand(_, _, _)
Expand(qr, d, places) ==
    IF places = 0 THEN qr
    ELSE Expand([q |-> 10 * qr.q + ((10 * qr.r) \div d),
                 r |-> (10 * qr.r) % d], d, places - 1)

\* integer nearest to n/d * 10^places, ties to even
RoundHalfEven(n, d, places) ==
    LET e == Expand([q |-> n \div d, r |-> n % d], d, places)
    IN  IF e.r < d - e.r THEN e.q
        ELSE IF e.r > d - e.r THEN e.q + 1
        ELSE IF e.q % 2 = 0 THEN e.q ELSE e.q + 1

\* Python round(v, places): an int is returned unchanged, a float becomes
\* the nearest multiple of 10^-places
round(v, places) ==
    IF v.den = 1 THEN v
    ELSE Q(RoundHalfEven(v.num, v.den, places), Pow10(places))

RoundAll(x, places) == [j \in DOMAIN x |-> round(x[j], places)]

(***************************************************************************)
(* The random source.                                                      *)
(***************************************************************************)
\* successor of a raw value in the stream of the source
Advance(u) == (5 * u + 3) % Resolution

\* mutant of seed: the call leaves the source as the process started it
NoSeed(a) == rng

\* random.seed(a): the stream is a function of a alone
seed(a) == [tape |-> <<>>, pos |-> 0, next |-> Advance(a % Resolution)]

\* the raw value answering the next call, and the source after the call
Cell(r) == IF r.pos < Len(r.tape) THEN r.tape[r.pos + 1] ELSE r.next
Step(r) == [r EXCEPT !.pos = @ + 1,
                     !.next = IF r.pos < Len(r.tape) THEN @ ELSE Advance(@)]

\* random.random(): uniform float in [0, 1)
Random(r) == [val |-> Q(Cell(r), Resolution), rng |-> Step(r)]

\* random.randint(0, 1)
RandInt01(r) == [val |-> IF 2 * Cell(r) >= Resolution THEN 1 ELSE 0, rng |-> Step(r)]

\* random.gauss(0, 0.3): a float noise term; the Gaussian transform itself is
\* abstracted to a noise numerator over Resolution, 0 for the middle raw value
Gauss(r) == [val |-> Q(((2 * Cell(r) - Resolution) * 3) \div 10, Resolution), rng |-> Step(r)]

\* mutant of Uniform11: the shift by -1 is forgotten
Uniform02(r) ==
    LET d == Random(r) IN [val |-> Q(2 * d.val.num, Resolution), rng |-> d.rng]

\* 2 * random.random() - 1: uniform float in [-1, 1)
Uniform11(r) ==
    LET d == Random(r) IN [val |-> Q(2 * d.val.num - Resolution, Resolution), rng |-> d.rng]

(***************************************************************************)
(* generate_clf_point.  A generator object is its frame [pc, x, label];    *)
(* one next() runs the loop body once, from the loop head to the yield.    *)
(***************************************************************************)
NewClfFrame == [pc |-> "created", x |-> None, label |-> None]

\* strategy 'halfs': the label is drawn first and picks the half of x0
Halfs(f, r) ==
    LET l  == RandInt01(r)
        d0 == Random(l.rng)
        x0 == IF l.val = 0 THEN Q(-d0.val.num, d0.val.den) ELSE d0.val
        x1 == Uniform11(d0.rng)
    IN  [f |-> [f EXCEPT !.label = l.val, !.x = <<x0, x1.val>>], rng |-> x1.rng]

\* mutant of QuartersLabel: a point on an axis is labelled 0
QuartersLabelGe(n0, n1) == IF n0 * n1 >= 0 THEN 0 ELSE 1

\* strategy 'quarters': label = 0 if x0 * x1 > 0 else 1
QuartersLabel(n0, n1) == IF n0 * n1 > 0 THEN 0 ELSE 1

\* the label rules of the two-coordinate shapes, for x0 = n0/Resolution and
\* x1 = n1/Resolution (each inequality multiplied through by its denominator)
ClfLabel(s, n0, n1) ==
    LET R == Resolution
        \* squared distance to (cx/2, cy/2), times 4 R^2
        D2(cx, cy) == (2 * n0 - cx * R) * (2 * n0 - cx * R)
                      + (2 * n1 - cy * R) * (2 * n1 - cy * R)
    IN  CASE s = "quarters" -> QuartersLabel(n0, n1)
          [] s = "diagonal" -> IF n0 - n1 > 0 THEN 0 ELSE 1
          \* x0 - x1 + 0.5 > 0
          [] s = "shifteddiagonal" -> IF 2 * (n0 - n1) + R > 0 THEN 0 ELSE 1
          \* sqrt(x0^2 + x1^2) < 0.5
          [] s = "circle" -> IF 4 * (n0 * n0 + n1 * n1) < R * R THEN 1 ELSE 0
          \* sqrt(((x0 - 0.2)/0.75)^2 + ((x1 + 0.3)/0.5)^2) < 1, times 15 R
          [] s = "ellipse" ->
                LET a == 4 * (5 * n0 - R)
                    b == 3 * (10 * n1 + 3 * R)
                IN  IF a * a + b * b < (15 * R) * (15 * R) THEN 1 ELSE 0
          \* within r = 0.25 of one of (+-0.5, +-0.5)
          [] s = "circles" ->
                IF \/ 4 * D2(1, 1) < R * R
                   \/ 4 * D2(-1, -1) < R * R
                   \/ 4 * D2(1, -1) < R * R
                   \/ 4 * D2(-1, 1) < R * R
                THEN 1 ELSE 0

\* the shapes that draw x0, x1 uniformly and label the point
TwoDim(f, s, r) ==
    LET x0 == Uniform11(r)
        x1 == Uniform11(x0.rng)
    IN  [f |-> [f EXCEPT !.label = ClfLabel(s, x0.val.num, x1.val.num),
                         !.x = <<x0.val, x1.val>>],
         rng |-> x1.rng]

\* mutant of Bernoulli: the label is the sum of the bits
BernoulliSum(f, r) ==
    LET b1 == RandInt01(r)
        b2 == RandInt01(b1.rng)
        b3 == RandInt01(b2.rng)
        b4 == RandInt01(b3.rng)
        b5 == RandInt01(b4.rng)
    IN  [f |-> [f EXCEPT !.label = b1.val + b2.val + b3.val + b4.val + b5.val,
                         !.x = <<Q(b1.val, 1), Q(b2.val, 1), Q(b3.val, 1),
                                 Q(b4.val, 1), Q(b5.val, 1)>>],
         rng |-> b5.rng]

\* strategy 'bernoulli': five bits, labelled by their majority
Bernoulli(f, r) ==
    LET b1 == RandInt01(r)
        b2 == RandInt01(b1.rng)
        b3 == RandInt01(b2.rng)
        b4 == RandInt01(b3.rng)
        b5 == RandInt01(b4.rng)
        sum == b1.val + b2.val + b3.val + b4.val + b5.val
    IN  [f |-> [f EXCEPT !.label = IF sum > 2 THEN 1 ELSE 0,
                         !.x = <<Q(b1.val, 1), Q(b2.val, 1), Q(b3.val, 1),
                                 Q(b4.val, 1), Q(b5.val, 1)>>],
         rng |-> b5.rng]

\* mutant of ClfBranch: the final else (the raise) is missing, so an unknown
\* strategy falls through with the initial x and label
ClfBranchNoElse(f, s, r) ==
    CASE s = "halfs" -> Halfs(f, r)
      [] s \in {"quarters", "diagonal", "shifteddiagonal", "circle", "ellipse", "circles"} ->
            TwoDim(f, s, r)
      [] s = "bernoulli" -> Bernoulli(f, r)
      [] OTHER -> [f |-> f, rng |-> r]

\* the if/elif chain of the loop body: the frame with x and label assigned,
\* and the random source after the branch's calls
ClfBranch(f, s, r) ==
    CASE s = "halfs" -> Halfs(f, r)
      [] s \in {"quarters", "diagonal", "shifteddiagonal", "circle", "ellipse", "circles"} ->
            TwoDim(f, s, r)
      [] s = "bernoulli" -> Bernoulli(f, r)
      \* raise NotImplementedError
      [] OTHER -> [f |-> [f EXCEPT !.pc = "raised"], rng |-> r]

\* mutant of generate_clf_point: the sample is computed before the loop and
\* `while True` only repeats the yield
generate_clf_point_hoisted(f, s, r) ==
    IF f.pc \in {"raised", "suspended"} THEN [f |-> f, rng |-> r]
    ELSE LET head == [f EXCEPT !.pc = "running", !.label = 0, !.x = <<Q(0, 1), Q(0, 1)>>]
             b    == ClfBranch(head, s, r)
         IN  IF b.f.pc = "raised" THEN b
             ELSE [f |-> [b.f EXCEPT !.pc = "suspended", !.x = RoundAll(@, 2)],
                   rng |-> b.rng]

\* next(g) on the generator with frame f: [f, rng]; the sample yielded is
\* <<f.x, f.label>> when f.pc = "suspended".  A generator that has raised is
\* finished and stays so.
generate_clf_point(f, s, r) ==
    IF f.pc = "raised" THEN [f |-> f, rng |-> r]
    ELSE LET head == [f EXCEPT !.pc = "running", !.label = 0, !.x = <<Q(0, 1), Q(0, 1)>>]
             b    == ClfBranch(head, s, r)
         IN  IF b.f.pc = "raised" THEN b
             ELSE [f |-> [b.f EXCEPT !.pc = "suspended", !.x = RoundAll(@, 2)],
                   rng |-> b.rng]

(***************************************************************************)
(* generate_reg_point.  Frame [pc, x, y].  The target is an exact rational *)
(* over Resolution^degree (the floating-point error of the polynomial's    *)
(* evaluation is not modelled).                                            *)
(***************************************************************************)
NewRegFrame == [pc |-> "created", x |-> None, y |-> None]

\* y += noise, for a noise whose denominator divides y's
AddNoise(y, g) == Q(y.num + g.num * (y.den \div g.den), y.den)

RegBranch(f, s, r) ==
    LET R  == Resolution
        a0 == Uniform11(r)
        a1 == Uniform11(a0.rng)
        a2 == Uniform11(a1.rng)
        a3 == Uniform11(a2.rng)
        n0 == a0.val.num
        n1 == a1.val.num
        n2 == a2.val.num
        n3 == a3.val.num
    IN  CASE s = "linear" ->
                [f |-> [f EXCEPT !.x = <<a0.val>>, !.y = Q(2 * n0 - R, R)], rng |-> a0.rng]
          [] s = "twodimlinear" ->
                [f |-> [f EXCEPT !.x = <<a0.val, a1.val>>, !.y = Q(2 * n0 + n1 - R, R)],
                 rng |-> a1.rng]
          [] s = "multidimlinear" ->
                [f |-> [f EXCEPT !.x = <<a0.val, a1.val, a2.val, a3.val>>,
                                 !.y = Q(2 * n0 + n1 + 10 * n2 - 5 * n3 - R, R)],
                 rng |-> a3.rng]
          [] s = "quadratic" ->
                [f |-> [f EXCEPT !.x = <<a0.val>>,
                                 !.y = Q(2 * n0 * n0 + n0 * R - R * R, R * R)],
                 rng |-> a0.rng]
          [] s = "twodimcubic" ->
                [f |-> [f EXCEPT !.x = <<a0.val, a1.val>>,
                                 !.y = Q(-(n0 * n0 * n0) + 2 * n1 * n1 * n1
                                         + (2 * n0 * n0 - 3 * n1 * n1) * R
                                         + (n0 - 2 * n1) * R * R - R * R * R,
                                         R * R * R)],
                 rng |-> a1.rng]
          [] s = "twodimquadratic" ->
                [f |-> [f EXCEPT !.x = <<a0.val, a1.val>>,
                                 !.y = Q(2 * n0 * n0 - 3 * n1 * n1 + 4 * n0 * n1
                                         + (n0 - 2 * n1) * R - R * R,
                                         R * R)],
                 rng |-> a1.rng]
          [] s = "cubic" ->
                [f |-> [f EXCEPT !.x = <<a0.val>>,
                                 !.y = Q(-(2 * n0 * n0 * n0) + 2 * n0 * n0 * R
                                         + n0 * R * R - R * R * R,
                                         R * R * R)],
                 rng |-> a0.rng]
          \* raise NotImplementedError
          [] OTHER -> [f |-> [f EXCEPT !.pc = "raised"], rng |-> r]

\* next(g): [f, rng]; the sample yielded is <<f.x, f.y>>
generate_reg_point(f, s, r) ==
    IF f.pc = "raised" THEN [f |-> f, rng |-> r]
    ELSE LET head == [f EXCEPT !.pc = "running", !.x = Q(0, 1), !.y = Q(0, 1)]
             b    == RegBranch(head, s, r)
             g    == Gauss(b.rng)
         IN  IF b.f.pc = "raised" THEN b
             ELSE [f |-> [b.f EXCEPT !.pc = "suspended",
                                     !.x = RoundAll(@, 3),
                                     !.y = round(AddNoise(b.f.y, g.val), 3)],
                   rng |-> g.rng]

(***************************************************************************)
(* src/test/resources/create_data.py, regression branch: row i of the      *)
(* 1000 evenly spaced points, <<i, x, y>>.                                 *)
(***************************************************************************)
TestResInstances == 1000

TestResRegRow(k) ==
    LET n == TestResInstances - 1
        \* x = -1 + i * 2 / (nInstances - 1)
        x == Q(2 * k - n, n)
        \* strategy = 'linear': y = 2 * x + 1
        y == Q(2 * x.num + n, n)
    IN  <<Q(k, 1), round(x, 3), round(y, 3)>>

(***************************************************************************)
(* Generator harness: one generator of one strategy, pulled once on a      *)
(* random source whose next raw values are arbitrary.                      *)
(***************************************************************************)
Raws == {u \in 0..(Resolution - 1) :
            \/ u % RawStride = 0
            \/ u % RawStride = RawStride - 1
            \/ Abs(2 * u - Resolution) <= 2 * RawNear}

\* raw values for a call of randint(0, 1) (one per outcome) and of gauss
Bits == {0, Resolution - 1}
NoiseRaws == {0, Resolution \div 2, Resolution - 1}

\* the tapes tried for a strategy: every call of the pull gets a raw value
Tapes(st) ==
    CASE st.name = "halfs" -> {<<b, u0, u1>> : b \in Bits, u0 \in Raws, u1 \in Raws}
      [] st.name = "bernoulli" -> [1..5 -> Bits]
      [] st.kind = "clf" -> {<<u0, u1, 0>> : u0 \in Raws, u1 \in Raws}
      [] st.name \in {"linear", "quadratic", "cubic"} ->
            {<<u0, g>> : u0 \in 0..(Resolution - 1), g \in NoiseRaws}
      [] st.name = "multidimlinear" ->
            {<<u0, u1, u2, u3, g>> : u0 \in Bits, u1 \in Bits, u2 \in Bits,
                                      u3 \in Bits, g \in NoiseRaws}
      [] OTHER -> {<<u0, u1, g>> : u0 \in Raws, u1 \in Bits, g \in NoiseRaws}

Strategies ==
    {[kind |-> "clf", name |-> s] : s \in ClfChoices \cup {Unsupported}}
    \cup {[kind |-> "reg", name |-> s] : s \in RegChoices \cup {Unsupported}}
    \cup {[kind |-> "testres", name |-> "linear"]}

DriverIdle ==
    /\ args = [clf |-> None, reg |-> None]
    /\ pc = "idle" /\ command = 0 /\ i = 0
    /\ files = <<>> /\ stdout = <<>>
    /\ run = 0 /\ firstRun = <<>> /\ pulled = <<>>

InitGen ==
    /\ DriverIdle
    /\ strategy \in Strategies
    /\ gen = IF strategy.kind = "clf" THEN NewClfFrame ELSE NewRegFrame
    /\ rng = [tape |-> <<>>, pos |-> 0, next |-> 0]
    /\ out = <<>>
    /\ rngF = rng /\ outF = <<>>

\* next(generate_clf_point(strategy)) on some tape
GenPullClf ==
    /\ strategy.kind = "clf" /\ gen.pc = "created"
    /\ \E t \in Tapes(strategy) :
          LET n == generate_clf_point(gen, strategy.name, [tape |-> t, pos |-> 0, next |-> 0])
          IN  /\ gen' = n.f
              /\ rng' = n.rng
              /\ out' = IF n.f.pc = "suspended" THEN <<<<n.f.x, n.f.label>>>> ELSE out
    /\ UNCHANGED <<driverVars, strategy, rngF, outF>>

\* next(generate_reg_point(strategy)) on some tape
GenPullReg ==
    /\ strategy.kind = "reg" /\ gen.pc = "created"
    /\ \E t \in Tapes(strategy) :
          LET n == generate_reg_point(gen, strategy.name, [tape |-> t, pos |-> 0, next |-> 0])
          IN  /\ gen' = n.f
              /\ rng' = n.rng
              /\ out' = IF n.f.pc = "suspended" THEN <<<<n.f.x, n.f.y>>>> ELSE out
    /\ UNCHANGED <<driverVars, strategy, rngF, outF>>

\* one iteration of the regression write loop of the test resources script
GenTestResRow ==
    /\ strategy.kind = "testres" /\ out = <<>>
    /\ \E k \in 0..(TestResInstances - 1) :
          LET row == TestResRegRow(k) IN out' = <<<<<<row[2]>>, row[3]>>>>
    /\ UNCHANGED <<driverVars, strategy, gen, rng, rngF, outF>>

NextGen == GenPullClf \/ GenPullReg \/ GenTestResRow

SpecGen == InitGen /\ [][NextGen]_vars

(***************************************************************************)
(* Properties of one pulled sample (checked under SpecGen).                *)
(***************************************************************************)
\* the sample of the harness, once yielded
Yielded == out # <<>>
SampleX == out[1][1]
SampleT == out[1][2]

\* C6: for every supported classification strategy and every value of the
\* random draws, the label of a yielded sample is 0 or 1.
C6_LabelBinary ==
    (strategy.kind = "clf" /\ strategy.name \in ClfChoices /\ Yielded)
        => SampleT \in {0, 1}

\* a bernoulli sample with four bits set, labelled 1
C6_Witness ==
    /\ strategy = [kind |-> "clf", name |-> "bernoulli"] /\ Yielded
    /\ SampleX[1].num + SampleX[2].num + SampleX[3].num + SampleX[4].num + SampleX[5].num = 4
    /\ SampleT = 1

QuartersYielded == strategy = [kind |-> "clf", name |-> "quarters"] /\ Yielded

\* C7 as stated: for strategy quarters the label is 0 iff the product of the
\* yielded (2-decimal rounded) features is positive.
C7_Original ==
    QuartersYielded => (SampleT = 0 <=> SampleX[1].num * SampleX[2].num > 0)

\* C7 amended: for strategy quarters the label is 0 iff the product of the
\* drawn, unrounded coordinates 2u-1 is positive; of the yielded rounded
\* features only this is left: a positive product has label 0, a negative
\* product has label 1, and a feature rounded to 0 may carry either label.
C7_Amended ==
    QuartersYielded =>
        /\ SampleT = 0 <=>
              (2 * rng.tape[1] - Resolution) * (2 * rng.tape[2] - Resolution) > 0
        /\ SampleX[1].num * SampleX[2].num > 0 => SampleT = 0
        /\ SampleX[1].num * SampleX[2].num < 0 => SampleT = 1

\* a quarters sample labelled 0 whose first feature was rounded to 0
C7_Witness ==
    QuartersYielded /\ SampleT = 0 /\ SampleX[1].num = 0 /\ SampleX[2].num # 0

\* C9: every feature yielded by generate_clf_point lies in [-1, 1] after
\* rounding; for halfs, x0 lies in [-1, 0] under label 0 and in [0, 1] under
\* label 1.
C9_FeatureRange ==
    (strategy.kind = "clf" /\ Yielded) =>
        /\ \A j \in DOMAIN SampleX :
              -SampleX[j].den <= SampleX[j].num /\ SampleX[j].num <= SampleX[j].den
        /\ strategy.name = "halfs" =>
              /\ SampleT = 0 => (-SampleX[1].den <= SampleX[1].num /\ SampleX[1].num <= 0)
              /\ SampleT = 1 => (0 <= SampleX[1].num /\ SampleX[1].num <= SampleX[1].den)

\* a halfs sample of label 0 whose x0 was rounded down to -1.0, with x1
\* rounded up to 1.0
C9_Witness ==
    /\ strategy = [kind |-> "clf", name |-> "halfs"] /\ Yielded
    /\ SampleT = 0
    /\ SampleX[1] = Q(-100, 100)
    /\ SampleX[2] = Q(100, 100)

\* the noise term of the pulled regression sample is 0 (the test resources
\* script adds none)
NoiseIsZero ==
    \/ strategy.kind = "testres"
    \/ strategy.kind = "reg" /\ Gauss([rng EXCEPT !.pos = @ - 1]).val.num = 0

\* C8 as stated: for regression strategy linear with noise 0, the emitted
\* (3-decimal rounded) target is exactly 2x-1 for the emitted feature x, in
\* generate_reg_point and in the test resources script.
C8_Original ==
    (strategy.name = "linear" /\ strategy.kind \in {"reg", "testres"}
        /\ Yielded /\ NoiseIsZero)
        => SampleT.num = 2 * SampleX[1].num - 1000

\* C8 for generate_reg_point alone
C8_OriginalBin ==
    (strategy = [kind |-> "reg", name |-> "linear"] /\ Yielded /\ NoiseIsZero)
        => SampleT.num = 2 * SampleX[1].num - 1000

(***************************************************************************)
(* bin/create_data.py, the script: argument parsing, then the              *)
(* classification block, the regression block and the closing message.     *)
(* `kind` is "clf" or "reg"; the two blocks are the same code up to the     *)
(* generator, the file prefix and the header.                              *)
(***************************************************************************)
Kinds == {"clf", "reg"}
Commands == <<"train", "test">>
Choices(kind) == IF kind = "clf" THEN ClfChoices ELSE RegChoices

\* os.path.join(TARGET_DIR, kind + '_' + command + '.csv')
FileName(kind, cmd) == <<kind, cmd>>
FileNames == {FileName(k, Commands[c]) : k \in Kinds, c \in 1..2}

Header(kind) == IF kind = "clf" THEN "Index X Y Type" ELSE "Index X Y"

\* a name no file has, and the file `lines` were printed to
Absent == [exists |-> FALSE, lines |-> <<>>]
File(lines) == [exists |-> TRUE, lines |-> lines]

\* next(generate_clf_point(s)) / next(generate_reg_point(s)): a new generator
\* object, pulled once
Pull(kind, s, r) ==
    IF kind = "clf" THEN generate_clf_point(NewClfFrame, s, r)
    ELSE generate_reg_point(NewRegFrame, s, r)

\* the pair (x, label) or (x, y) a suspended generator has yielded
Sample(kind, f) == <<f.x, IF kind = "clf" THEN Q(f.label, 1) ELSE f.y>>

\* mutant of FormatRow: the label is printed before the features
FormatRowLabelFirst(k, smp) == <<Q(k, 1), smp[2]>> \o smp[1]

\* '{} {} {}'.format(i, ' '.join(map(str, x)), label): the fields of the row
FormatRow(k, smp) == <<Q(k, 1)>> \o smp[1] \o <<smp[2]>>

\* a process that never called random.seed holds a source seeded from the
\* operating system
EntropySeeds == {1, 2}
Unseeded == {[tape |-> <<>>, pos |-> 0, next |-> Advance(e)] : e \in EntropySeeds}

HarnessIdle ==
    /\ strategy = None /\ gen = None /\ out = <<>>
    /\ rngF = None /\ outF = <<>>

\* the state a new process starts in, given its command line
Init ==
    /\ args \in [clf : ClfChoices \cup {None, Unsupported},
                 reg : RegChoices \cup {None, Unsupported}]
    /\ pc = "parse" /\ command = 0 /\ i = 0
    /\ files = [f \in FileNames |-> Absent]
    /\ stdout = <<>>
    /\ rng \in Unseeded
    /\ run = 1 /\ firstRun = files /\ pulled = <<>>
    /\ HarnessIdle

\* parser.parse_args(): a value outside `choices` ends the process with a
\* usage error
ParseArgs ==
    /\ pc = "parse"
    /\ pc' = IF /\ args.clf \in ClfChoices \cup {None}
                /\ args.reg \in RegChoices \cup {None}
             THEN "clf_if" ELSE "usage_error"
    /\ UNCHANGED <<args, command, i, files, stdout, rng, run, firstRun, pulled, harnessVars>>

After(kind) == IF kind = "clf" THEN "reg_if" ELSE "finish"

\* if args.<kind> is not None: random.seed(1337), enter the loop over splits
BlockIf(kind) ==
    /\ pc = kind \o "_if"
    /\ IF args[kind] # None
       THEN /\ rng' = seed(SEED)
            /\ command' = 1
            /\ pc' = kind \o "_split"
       ELSE /\ pc' = After(kind)
            /\ UNCHANGED <<rng, command>>
    /\ UNCHANGED <<args, i, files, stdout, run, firstRun, pulled, harnessVars>>

\* mutant of Example: the 'Example:' print shows no sample and pulls none
ExampleNoPull(kind) ==
    /\ pc = kind \o "_split"
    /\ pc' = kind \o "_open"
    /\ stdout' = stdout \o <<<<"Creating data in", FileName(kind, Commands[command])>>,
                             <<"Shape:", args[kind]>>>>
    /\ UNCHANGED <<args, command, i, files, rng, run, firstRun, pulled, harnessVars>>

\* the head of one split: filename, the three prints; the 'Example:' print
\* pulls a sample, and a raise inside it ends the process
Example(kind) ==
    /\ pc = kind \o "_split"
    /\ LET n == Pull(kind, args[kind], rng)
           head == <<<<"Creating data in", FileName(kind, Commands[command])>>,
                     <<"Shape:", args[kind]>>>>
       IN  IF n.f.pc = "raised"
           THEN /\ pc' = "raised"
                /\ stdout' = stdout \o head
                /\ UNCHANGED <<rng, pulled>>
           ELSE /\ pc' = kind \o "_open"
                /\ stdout' = stdout \o head \o <<<<"Example:", Sample(kind, n.f)>>>>
                /\ rng' = n.rng
                /\ pulled' = Append(pulled, [kind |-> kind, command |-> command,
                                             sample |-> Sample(kind, n.f)])
    /\ UNCHANGED <<args, command, i, files, run, firstRun, harnessVars>>

\* open(filename, 'w') creates or truncates the file; the header is printed
Open(kind) ==
    /\ pc = kind \o "_open"
    /\ files' = [files EXCEPT ![FileName(kind, Commands[command])] = File(<<Header(kind)>>)]
    /\ i' = 0
    /\ pc' = kind \o "_rows"
    /\ UNCHANGED <<args, command, stdout, rng, run, firstRun, pulled, harnessVars>>

\* one iteration of `for i in range(nInstances)`: pull a sample, print its row
Row(kind) ==
    /\ pc = kind \o "_rows"
    /\ i < nInstances
    /\ LET n == Pull(kind, args[kind], rng)
       IN  IF n.f.pc = "raised"
           THEN /\ pc' = "raised"
                /\ UNCHANGED <<rng, pulled, files, i>>
           ELSE /\ files' = [files EXCEPT ![FileName(kind, Commands[command])].lines =
                                Append(@, FormatRow(i, Sample(kind, n.f)))]
                /\ rng' = n.rng
                /\ pulled' = Append(pulled, [kind |-> kind, command |-> command,
                                             sample |-> Sample(kind, n.f)])
                /\ i' = i + 1
                /\ pc' = pc
    /\ UNCHANGED <<args, command, stdout, run, firstRun, harnessVars>>

\* mutant of SplitEnd: the source is seeded again for the next split
SplitEndReseed(kind) ==
    /\ pc = kind \o "_rows"
    /\ i = nInstances
    /\ IF command < Len(Commands)
       THEN command' = command + 1 /\ pc' = kind \o "_split"
       ELSE command' = 0 /\ pc' = After(kind)
    /\ rng' = seed(SEED)
    /\ UNCHANGED <<args, i, files, stdout, run, firstRun, pulled, harnessVars>>

\* the range is exhausted: the file is closed, the next split or block begins
SplitEnd(kind) ==
    /\ pc = kind \o "_rows"
    /\ i = nInstances
    /\ IF command < Len(Commands)
       THEN command' = command + 1 /\ pc' = kind \o "_split"
       ELSE command' = 0 /\ pc' = After(kind)
    /\ UNCHANGED <<args, i, files, stdout, rng, run, firstRun, pulled, harnessVars>>

\* the closing message
Finish ==
    /\ pc = "finish"
    /\ stdout' = Append(stdout, IF args.clf = None /\ args.reg = None
                                THEN "Nothing to do." ELSE "Done.")
    /\ pc' = "done"
    /\ UNCHANGED <<args, command, i, files, rng, run, firstRun, pulled, harnessVars>>

Ended == pc \in {"done", "raised", "usage_error"}

\* the same command line is run a second time, as a new process: the files
\* of the first run stay on disk, everything in memory starts afresh
Rerun ==
    /\ Ended /\ run = 1
    /\ run' = 2
    /\ firstRun' = files
    /\ pc' = "parse" /\ command' = 0 /\ i' = 0
    /\ stdout' = <<>> /\ pulled' = <<>>
    /\ rng' \in Unseeded
    /\ UNCHANGED <<args, files, harnessVars>>

Block(kind) == BlockIf(kind) \/ Example(kind) \/ Open(kind) \/ Row(kind) \/ SplitEnd(kind)

Next == ParseArgs \/ Block("clf") \/ Block("reg") \/ Finish \/ Rerun

Spec == Init /\ [][Next]_vars

(***************************************************************************)
(* The two blocks entered with an arbitrary strategy value, as the         *)
(* generators' own check of the strategy sees it (parse_args is skipped).  *)
(***************************************************************************)
InitBlock ==
    /\ args \in [clf : ClfChoices \cup {None, Unsupported},
                 reg : RegChoices \cup {None, Unsupported}]
    /\ pc = "clf_if" /\ command = 0 /\ i = 0
    /\ files = [f \in FileNames |-> Absent]
    /\ stdout = <<>>
    /\ rng \in Unseeded
    /\ run = 1 /\ firstRun = files /\ pulled = <<>>
    /\ HarnessIdle

NextBlock == Block("clf") \/ Block("reg") \/ Finish

SpecBlock == InitBlock /\ [][NextBlock]_vars

(***************************************************************************)
(* Properties of the script.                                               *)
(***************************************************************************)
\* the random source after k pulls of new generators since random.seed(1337),
\* and sample number k (from 0) of that stream
RECURSIVE SourceAfter(_, _, _)
SourceAfter(kind, s, k) ==
    IF k = 0 THEN seed(SEED)
    ELSE LET before == SourceAfter(kind, s, k - 1)
         IN  IF before.pos >= 0 THEN Pull(kind, s, before).rng ELSE before
SampleAt(kind, s, k) ==
    LET before == SourceAfter(kind, s, k)
    IN  IF before.pos >= 0 THEN Sample(kind, Pull(kind, s, before).f) ELSE <<>>

Requested == {k \in Kinds : args[k] # None}
Train(kind) == files[FileName(kind, "train")]
Test(kind) == files[FileName(kind, "test")]
\* the samples pulled for split c of a block, in order
PulledOf(kind, c) == SelectSeq(pulled, LAMBDA e : e.kind = kind /\ e.command = c)

\* C1: two independent runs with the same strategy leave identical train
\* and test files, whatever state the random source of each process
\* started in.
C1_Deterministic == (run = 2 /\ Ended) => files = firstRun

\* the second run of a command line with both flags has finished
C1_Witness ==
    /\ run = 2 /\ pc = "done"
    /\ args = [clf |-> "halfs", reg |-> "cubic"]
    /\ \A f \in FileNames : files[f].exists /\ Len(files[f].lines) = nInstances + 1
    /\ files = firstRun

C3_FileShape ==
    pc = "done" =>
        \A kind \in Requested : \A c \in 1..2 :
            LET F == files[FileName(kind, Commands[c])]
                P == PulledOf(kind, c)
            IN  /\ F.exists
                /\ Len(F.lines) = nInstances + 1
                /\ F.lines[1] = Header(kind)
                /\ \A j \in 0..(nInstances - 1) :
                      F.lines[j + 2] = <<Q(j, 1)>> \o P[j + 2].sample[1]
                                                   \o <<P[j + 2].sample[2]>>

\* a completed bernoulli run: rows of seven fields
C3_Witness ==
    /\ pc = "done" /\ args.clf = "bernoulli" /\ args.reg = "multidimlinear"
    /\ Len(Train("clf").lines[nInstances + 1]) = 7
    /\ Train("clf").lines[nInstances + 1][1] = Q(nInstances - 1, 1)

\* C4 as stated: the train file and the test file of one run are identical.
C4_Original ==
    pc = "done" => \A kind \in Requested : Train(kind).lines = Test(kind).lines

\* C4 amended: the train file and the test file of one run have the same
\* header, the same number of rows and the same index column, but their
\* samples are consecutive segments of the one seeded stream: row i of the
\* test file is sample nInstances+2+i of the stream (row i of the train file
\* is sample 1+i), so the two files differ wherever those samples differ.
C4_Amended ==
    pc = "done" =>
        \A kind \in Requested :
            /\ Train(kind).lines[1] = Test(kind).lines[1]
            /\ Len(Train(kind).lines) = Len(Test(kind).lines)
            /\ \A j \in 0..(nInstances - 1) :
                  /\ Test(kind).lines[j + 2][1] = Train(kind).lines[j + 2][1]
                  /\ Test(kind).lines[j + 2] =
                        FormatRow(j, SampleAt(kind, args[kind], nInstances + 2 + j))

\* a completed run whose train and test files differ in their first row
C4_Witness ==
    /\ pc = "done" /\ args.clf = "diagonal"
    /\ Train("clf").lines[2] # Test("clf").lines[2]

\* C5 as stated: each split pulls exactly nInstances samples, all of them
\* written, so row i of the first split is sample i of the seeded stream.
C5_Original ==
    pc = "done" =>
        \A kind \in Requested :
            /\ \A c \in 1..2 : Len(PulledOf(kind, c)) = nInstances
            /\ \A j \in 0..(nInstances - 1) :
                  Train(kind).lines[j + 2] = FormatRow(j, SampleAt(kind, args[kind], j))

\* C5 amended: each split pulls exactly nInstances+1 samples: the first is
\* only printed on the 'Example:' line, the following nInstances are written
\* as its rows; so row i of the first split is sample i+1 (counting from 0)
\* of the seeded stream.
C5_Amended ==
    /\ \A kind \in Requested :
          Train(kind).exists =>
              \A j \in 0..(Len(Train(kind).lines) - 2) :
                  Train(kind).lines[j + 2] = FormatRow(j, SampleAt(kind, args[kind], j + 1))
    /\ pc = "done" =>
          \A kind \in Requested : \A c \in 1..2 :
              LET P == PulledOf(kind, c)
              IN  /\ Len(P) = nInstances + 1
                  /\ \E k \in 1..Len(stdout) : stdout[k] = <<"Example:", P[1].sample>>
                  /\ \A j \in 0..(nInstances - 1) :
                        files[FileName(kind, Commands[c])].lines[j + 2]
                            = FormatRow(j, P[j + 2].sample)

\* a completed run whose first row is sample 1 and differs from sample 0
C5_Witness ==
    /\ pc = "done" /\ args.reg = "linear"
    /\ Train("reg").lines[2] = FormatRow(0, SampleAt("reg", "linear", 1))
    /\ Train("reg").lines[2] # FormatRow(0, SampleAt("reg", "linear", 0))

(***************************************************************************)
(* Restart harness: the same stream consumed through one long-lived        *)
(* generator (gen, rng, out) and through a new generator per pull (rngF,   *)
(* outF).                                                                  *)
(***************************************************************************)
InitRestart ==
    /\ DriverIdle
    /\ strategy \in {[kind |-> "clf", name |-> s] : s \in ClfChoices}
                    \cup {[kind |-> "reg", name |-> s] : s \in RegChoices}
    /\ gen = IF strategy.kind = "clf" THEN NewClfFrame ELSE NewRegFrame
    /\ rng \in Unseeded \cup {seed(SEED)}
    /\ rngF = rng
    /\ out = <<>> /\ outF = <<>>

\* next(g) on the long-lived generator g
PullSame ==
    /\ Len(out) < MaxPulls
    /\ LET n == IF strategy.kind = "clf"
                THEN generate_clf_point(gen, strategy.name, rng)
                ELSE generate_reg_point(gen, strategy.name, rng)
       IN  /\ gen' = n.f
           /\ rng' = n.rng
           /\ out' = Append(out, Sample(strategy.kind, n.f))
    /\ UNCHANGED <<driverVars, strategy, rngF, outF>>

\* next(generate_..._point(strategy)), as the script pulls
PullFresh ==
    /\ Len(outF) < MaxPulls
    /\ LET n == Pull(strategy.kind, strategy.name, rngF)
       IN  /\ rngF' = n.rng
           /\ outF' = Append(outF, Sample(strategy.kind, n.f))
    /\ UNCHANGED <<driverVars, strategy, gen, rng, out>>

NextRestart == PullSame \/ PullFresh

SpecRestart == InitRestart /\ [][NextRestart]_vars

\* calls of the random source per pull, as the claim lists them
DrawsPerPull(st) ==
    CASE st.name = "halfs" -> 3
      [] st.name = "bernoulli" -> 5
      [] st.kind = "clf" -> 2
      [] st.name \in {"linear", "quadratic", "cubic"} -> 1 + 1
      [] st.name = "multidimlinear" -> 4 + 1
      [] OTHER -> 2 + 1

\* C10: pulling through a new generator per pull yields the same samples,
\* and leaves the random source in the same state, as pulling through one
\* generator; each pull consumes a fixed per-strategy number of draws.
C10_Restartable ==
    /\ \A k \in 1..Len(out) : k <= Len(outF) => out[k] = outF[k]
    /\ Len(out) = Len(outF) => rng = rngF
    /\ rng.pos = Len(out) * DrawsPerPull(strategy)
    /\ rngF.pos = Len(outF) * DrawsPerPull(strategy)

\* both consumers have pulled MaxPulls samples, not all the same
C10_Witness ==
    /\ strategy = [kind |-> "clf", name |-> "halfs"]
    /\ Len(out) = MaxPulls /\ Len(outF) = MaxPulls
    /\ out = outF /\ out[1] # out[2]

====
